---- MODULE Spec2Model ----
(***************************************************************************)
(* clok4: a GTK4 analog clock (src/clok4.c).                               *)
(*                                                                         *)
(* The model follows one process from main() to its exit: process_config,  *)
(* g_application_run (activation, the event loop with timer ticks, window  *)
(* resizes, paints and the quit action) and the shutdown code of main      *)
(* that saves the configuration.  GTK, GLib, cairo and librsvg are the     *)
(* host: what they return is drawn from small sets of inputs.              *)
(*                                                                         *)
(* Optional values (a key of the key file, a command-line option) are      *)
(* <<>> when absent and <<v>> when present.                                *)
(***************************************************************************)
EXTENDS Integers, Sequences, FiniteSets, TLC

\* ------------------------------------------------------------------ bounds
\* paints (on_draw calls) followed in one run
MaxPaints == 3
\* process runs followed one after the other (SpecCfg)
MaxRuns == 2

\* ---------------------------------------------------------- the layers
CLOCK_DROP_SHADOW == "CLOCK_DROP_SHADOW"
CLOCK_FACE == "CLOCK_FACE"
CLOCK_MARKS == "CLOCK_MARKS"
CLOCK_HOUR_HAND_SHADOW == "CLOCK_HOUR_HAND_SHADOW"
CLOCK_MINUTE_HAND_SHADOW == "CLOCK_MINUTE_HAND_SHADOW"
CLOCK_SECOND_HAND_SHADOW == "CLOCK_SECOND_HAND_SHADOW"
CLOCK_HOUR_HAND == "CLOCK_HOUR_HAND"
CLOCK_MINUTE_HAND == "CLOCK_MINUTE_HAND"
CLOCK_SECOND_HAND == "CLOCK_SECOND_HAND"
CLOCK_FACE_SHADOW == "CLOCK_FACE_SHADOW"
CLOCK_GLASS == "CLOCK_GLASS"
CLOCK_FRAME == "CLOCK_FRAME"

\* enum LayerElement
LayerElement ==
    { CLOCK_DROP_SHADOW, CLOCK_FACE, CLOCK_MARKS, CLOCK_HOUR_HAND_SHADOW,
      CLOCK_MINUTE_HAND_SHADOW, CLOCK_SECOND_HAND_SHADOW, CLOCK_HOUR_HAND,
      CLOCK_MINUTE_HAND, CLOCK_SECOND_HAND, CLOCK_FACE_SHADOW, CLOCK_GLASS,
      CLOCK_FRAME }

\* the layers load_clock_svgs loads with needed = true
NeededLayers ==
    { CLOCK_DROP_SHADOW, CLOCK_FACE, CLOCK_MINUTE_HAND, CLOCK_HOUR_HAND }

\* the layers load_clock_svgs loads only when dont_show_seconds is unset
SecondsLayers ==
    { CLOCK_SECOND_HAND, CLOCK_SECOND_HAND_SHADOW }

\* static_layers_info[] with the glass entered before the face shadow
static_layers_info_GlassFirst ==
    << CLOCK_DROP_SHADOW, CLOCK_FACE, CLOCK_MARKS, CLOCK_GLASS,
       CLOCK_FACE_SHADOW, CLOCK_FRAME >>

\* static_layers_info[] of draw_static_layers, in array order
static_layers_info ==
    << CLOCK_DROP_SHADOW, CLOCK_FACE, CLOCK_MARKS, CLOCK_FACE_SHADOW,
       CLOCK_GLASS, CLOCK_FRAME >>

\* hand_layers_info[] with each shadow entered right before its hand
hand_layers_info_Paired ==
    << CLOCK_HOUR_HAND_SHADOW, CLOCK_HOUR_HAND, CLOCK_MINUTE_HAND_SHADOW,
       CLOCK_MINUTE_HAND, CLOCK_SECOND_HAND_SHADOW, CLOCK_SECOND_HAND >>

\* hand_layers_info[] of draw_clock_hands, in array order
hand_layers_info ==
    << CLOCK_HOUR_HAND_SHADOW, CLOCK_MINUTE_HAND_SHADOW, CLOCK_SECOND_HAND_SHADOW,
       CLOCK_HOUR_HAND, CLOCK_MINUTE_HAND, CLOCK_SECOND_HAND >>

\* ------------------------------------------------------- optional values
None == <<>>
Some(v) == <<v>>

\* ------------------------------------------------------------ the state
VARIABLES
    pc,                 \* where the process is: "main", "configured", "running",
                        \* "after_run", "exited", "crashed"
    exitCode,           \* the exit status once pc = "exited"
    fatal,              \* which fatal error ended the run ("none" when none did)
    run,                \* number of the process run (1 = the first)
    cfgFile,            \* the file ~/.config/clok4/clok4.conf on disk
    startFile,          \* that file as this run found it
    key_file,           \* GKeyFile *key_file
    cliGiven,           \* the options the command line of this run gave
    clock_width, clock_height, theme, refresh_rate,
    userthemes, dont_show_seconds,
    resized_width, resized_height,
    g_svg_handles,      \* the set of layers whose handle is not NULL
    g_window,           \* TRUE when g_window is not NULL
    winSize,            \* the default size GTK holds for the window
    now,                \* the local time clock_gettime and localtime_r give
    timer,              \* <<>> when no timeout is armed, <<interval in ms>> otherwise
    pending,            \* a redraw of the drawing area is queued
    bg_cache,           \* <<>> when NULL, <<surface>> otherwise
    live,               \* the surfaces created and not destroyed, by number
    bg_cache_w, bg_cache_h,
    frame,              \* the last on_draw: its size, the layers that failed to
                        \* rasterize in it, the local time it read and the one
                        \* the on_draw before it read, its operations in order,
                        \* the surface it painted as the background
    nPaints,            \* on_draw calls of this run
    nStatic,            \* draw_static_layers calls of this run
    nSizeChanges,       \* paints whose size differed from the paint before
    nSaveCalls,         \* save_key_file calls of this run
    nWrites,            \* times the config file was written in this run
    saved               \* <<>> or <<the settings the previous run wrote>>

vars ==
    << pc, exitCode, fatal, run, cfgFile, startFile, key_file, cliGiven, clock_width,
       clock_height, theme, refresh_rate, userthemes, dont_show_seconds,
       resized_width, resized_height, g_svg_handles, g_window, winSize, now,
       timer, pending, bg_cache, live, bg_cache_w, bg_cache_h, frame, nPaints,
       nStatic, nSizeChanges, nSaveCalls, nWrites, saved >>

cfgVars ==
    << clock_width, clock_height, theme, refresh_rate, userthemes,
       dont_show_seconds >>

\* what a paint reads or writes besides the settings and the handles
paintVars ==
    << now, bg_cache, live, bg_cache_w, bg_cache_h, frame, nPaints, nStatic,
       nSizeChanges >>

\* a key file with no keys: g_key_file_new, or a file that does not exist
EmptyKeyFile ==
    [width |-> None, height |-> None, theme |-> None, hz |-> None]

NoFile ==
    [exists |-> FALSE, keys |-> EmptyKeyFile]

\* a local time: tm_hour, tm_min, tm_sec of struct tm and tv_nsec of struct timespec
Time(h, m, sec, nsec) ==
    [tm_hour |-> h, tm_min |-> m, tm_sec |-> sec, tv_nsec |-> nsec]

NoFrame ==
    [w |-> 0, h |-> 0, failed |-> {}, time |-> Time(0, 0, 0, 0),
     prevTime |-> Time(0, 0, 0, 0), ops |-> <<>>, painted |-> None]

\* the static initializers of the file-scope variables, and a fresh process
StaticsInit ==
    /\ pc = "main"
    /\ exitCode = 0
    /\ fatal = "none"
    /\ key_file = EmptyKeyFile
    /\ cliGiven = [width |-> None, height |-> None, theme |-> None, hz |-> None,
                   userthemes |-> FALSE, noseconds |-> FALSE]
    /\ clock_width = 400
    /\ clock_height = 400
    /\ theme = None
    /\ refresh_rate = 5
    /\ userthemes = FALSE
    /\ dont_show_seconds = FALSE
    /\ resized_width = 0
    /\ resized_height = 0
    /\ g_svg_handles = {}
    /\ g_window = FALSE
    /\ winSize = <<0, 0>>
    /\ timer = None
    /\ pending = FALSE
    /\ bg_cache = None
    /\ live = {}
    /\ bg_cache_w = 0
    /\ bg_cache_h = 0
    /\ frame = NoFrame
    /\ nPaints = 0
    /\ nStatic = 0
    /\ nSizeChanges = 0
    /\ nSaveCalls = 0
    /\ nWrites = 0

\* ----------------------------------------------------- process_config
\* g_key_file_get_integer with the height read from the key "width"
g_key_file_get_integer_WidthKey(kf, key) ==
    IF key = "height"
    THEN (IF kf.width = None THEN 0 ELSE kf.width[1])
    ELSE (IF kf[key] = None THEN 0 ELSE kf[key][1])

\* g_key_file_get_integer(key_file, "Settings", key, NULL): 0 when the key is
\* missing (or is no integer)
g_key_file_get_integer(kf, key) ==
    IF kf[key] = None THEN 0 ELSE kf[key][1]

\* clock_width = g_key_file_get_integer(...); if (!clock_width) clock_width = 400;
\* and the same for clock_height (400) and refresh_rate (10)
ConfigInteger(kf, key, dflt) ==
    IF g_key_file_get_integer(kf, key) = 0 THEN dflt
    ELSE g_key_file_get_integer(kf, key)

\* newtheme = g_key_file_get_string(...); theme = newtheme ? newtheme : g_strdup("default")
ConfigTheme(kf) ==
    IF kf.theme = None THEN "default" ELSE kf.theme[1]

\* an option parser that leaves the variable alone even when the option is given
OptionValue_ConfigWins(opt, current) ==
    current

\* g_option_context_parse stores the value of each option that is given
\* into the variable its GOptionEntry names, and leaves the others alone
OptionValue(opt, current) ==
    IF opt = None THEN current ELSE opt[1]

\* main: if (process_config(argc, argv) != 0) exit(EXIT_FAILURE);
ConfigFails(why) ==
    /\ pc' = "exited"
    /\ exitCode' = 1
    /\ fatal' = why
    /\ UNCHANGED << run, cfgFile, startFile, cliGiven, resized_width, resized_height,
                    g_svg_handles, g_window, winSize, timer, pending, paintVars,
                    nSaveCalls, nWrites, saved >>

\* process_config returns 1 before key_file exists: g_get_user_config_dir gave
\* NULL, or the directory is missing and g_mkdir_with_parents failed
ProcessConfigNoDir(why) ==
    /\ pc = "main"
    /\ why \in {"no_user_config_dir", "mkdir"}
    /\ ConfigFails(why)
    /\ UNCHANGED << key_file, cfgVars >>

\* g_key_file_load_from_file failed with an error other than
\* G_FILE_ERROR_NOENT (the file or its directory cannot be read, the file
\* is no key file)
ProcessConfigLoadFails ==
    /\ pc = "main"
    /\ ConfigFails("config_load")
    /\ key_file' = EmptyKeyFile
    /\ UNCHANGED cfgVars

\* the settings are read from the key file, then the command line is parsed;
\* parsed = FALSE when g_option_context_parse reports an error
ProcessConfigParse(cli, parsed) ==
    /\ pc = "main"
    /\ key_file' = cfgFile.keys
    /\ clock_width' = OptionValue(cli.width, ConfigInteger(cfgFile.keys, "width", 400))
    /\ clock_height' = OptionValue(cli.height, ConfigInteger(cfgFile.keys, "height", 400))
    /\ theme' = Some(OptionValue(cli.theme, ConfigTheme(cfgFile.keys)))
    /\ refresh_rate' = OptionValue(cli.hz, ConfigInteger(cfgFile.keys, "hz", 10))
    /\ userthemes' = (userthemes \/ cli.userthemes)
    /\ dont_show_seconds' = (dont_show_seconds \/ cli.noseconds)
    /\ IF parsed
       THEN /\ pc' = "configured"
            /\ cliGiven' = cli
            /\ UNCHANGED << exitCode, fatal, run, cfgFile, startFile, resized_width,
                            resized_height, g_svg_handles, g_window, winSize,
                            timer, pending, paintVars, nSaveCalls, nWrites, saved >>
       ELSE ConfigFails("cli")

\* what the command line may give
NoOptions ==
    [width |-> None, height |-> None, theme |-> None, hz |-> None,
     userthemes |-> FALSE, noseconds |-> FALSE]

process_config(CommandLines) ==
    \/ \E why \in {"no_user_config_dir", "mkdir"} : ProcessConfigNoDir(why)
    \/ ProcessConfigLoadFails
    \/ \E cli \in CommandLines : ProcessConfigParse(cli, TRUE)
    \/ \E cli \in CommandLines : ProcessConfigParse(cli, FALSE)

\* ------------------------------------------------------- load_clock_svgs
\* load_svg without its if (needed) exit(EXIT_FAILURE)
load_svg_NeverExits(files, layer, needed) ==
    IF layer \in files THEN "handle" ELSE "NULL"

\* load_svg(filename, needed) with `files` the layers whose file
\* rsvg_handle_new_from_file can load: the handle, NULL for a file that is not
\* needed, exit(EXIT_FAILURE) for one that is
load_svg(files, layer, needed) ==
    IF layer \in files THEN "handle"
    ELSE IF needed THEN "exit" ELSE "NULL"

\* the load_svg calls of load_clock_svgs, in order: <<layer, needed>>
LoadOrder ==
    << <<CLOCK_DROP_SHADOW, TRUE>>, <<CLOCK_FACE, TRUE>>,
       <<CLOCK_FACE_SHADOW, FALSE>>, <<CLOCK_MARKS, FALSE>>,
       <<CLOCK_MINUTE_HAND, TRUE>>, <<CLOCK_MINUTE_HAND_SHADOW, FALSE>>,
       <<CLOCK_SECOND_HAND, FALSE>>, <<CLOCK_SECOND_HAND_SHADOW, FALSE>>,
       <<CLOCK_HOUR_HAND, TRUE>>, <<CLOCK_HOUR_HAND_SHADOW, FALSE>>,
       <<CLOCK_GLASS, FALSE>>, <<CLOCK_FRAME, FALSE>> >>

\* load_clock_svgs without its if (!dont_show_seconds)
LoadCalls_Always(noseconds) ==
    LoadOrder

\* the calls load_clock_svgs makes: if (!dont_show_seconds) guards the two
\* second-hand layers
LoadCalls(noseconds) ==
    SelectSeq(LoadOrder, LAMBDA e : ~(noseconds /\ e[1] \in SecondsLayers))

\* what each call of load_clock_svgs returns
LoadResults(files, noseconds) ==
    [i \in 1..Len(LoadCalls(noseconds)) |->
        load_svg(files, LoadCalls(noseconds)[i][1], LoadCalls(noseconds)[i][2])]

\* some load_svg call of load_clock_svgs ends the process
LoadExits(files, noseconds) ==
    \E i \in 1..Len(LoadCalls(noseconds)) : LoadResults(files, noseconds)[i] = "exit"

\* g_svg_handles after load_clock_svgs returned
LoadedHandles(files, noseconds) ==
    { LoadCalls(noseconds)[i][1] : i \in
        { j \in 1..Len(LoadCalls(noseconds)) : LoadResults(files, noseconds)[j] = "handle" } }

\* (int)ceil(w) of a size given in tenths of a pixel
CeilTenths(x) ==
    (x + 9) \div 10

\* the division of C on ints: the quotient truncated toward zero
CDiv(a, b) ==
    IF (a >= 0) = (b > 0) THEN a \div b
    ELSE -((-a) \div b)

\* the files of the theme directory that load: all twelve, all but the marks,
\* all but the second hand and its shadow, only the four needed ones, or all
\* but one of the needed ones
ThemeDirs ==
    { LayerElement, LayerElement \ {CLOCK_MARKS}, LayerElement \ SecondsLayers,
      NeededLayers }
        \cup { LayerElement \ {l} : l \in NeededLayers }

\* what rsvg_handle_get_intrinsic_size_in_pixels gives for the drop shadow, in
\* tenths of a pixel: <<0, 0>> when the document has no size in pixels
IntrinsicSizes ==
    { <<0, 0>>, <<3995, 3995>> }

\* ----------------------------------------------------- on_app_activate_cb
\* the window is created with the configured size, then a needed layer fails
\* to load: load_svg ends the process
ActivateLoadExits(files) ==
    /\ pc = "configured"
    /\ LoadExits(files, dont_show_seconds)
    /\ g_window' = TRUE
    /\ winSize' = <<clock_width, clock_height>>
    /\ pc' = "exited"
    /\ exitCode' = 1
    /\ fatal' = "asset"
    /\ UNCHANGED << run, cfgFile, startFile, key_file, cliGiven, cfgVars, resized_width,
                    resized_height, g_svg_handles, timer, pending, paintVars,
                    nSaveCalls, nWrites, saved >>

\* the layers are loaded and clock_width, clock_height become the size of the
\* drop shadow; 1000 / refresh_rate with refresh_rate = 0 is undefined: the
\* division traps (trap = TRUE) or gives 0
ActivateLoaded(files, size, trap) ==
    /\ pc = "configured"
    /\ ~LoadExits(files, dont_show_seconds)
    /\ g_window' = TRUE
    /\ winSize' = <<clock_width, clock_height>>
    /\ g_svg_handles' = LoadedHandles(files, dont_show_seconds)
    /\ clock_width' = CeilTenths(size[1])
    /\ clock_height' = CeilTenths(size[2])
    /\ IF refresh_rate = 0 /\ trap
       THEN /\ pc' = "crashed"
            /\ UNCHANGED << timer, pending >>
       ELSE /\ pc' = "running"
            /\ timer' = Some(IF refresh_rate = 0 THEN 0 ELSE CDiv(1000, refresh_rate))
            /\ pending' = TRUE
    /\ UNCHANGED << exitCode, fatal, run, cfgFile, startFile, key_file, cliGiven, theme,
                    refresh_rate, userthemes, dont_show_seconds, resized_width,
                    resized_height, paintVars, nSaveCalls, nWrites, saved >>

on_app_activate_cb(Dirs, Sizes) ==
    \/ \E files \in Dirs : ActivateLoadExits(files)
    \/ \E files \in Dirs, size \in Sizes : ActivateLoaded(files, size, FALSE)
    \/ \E files \in Dirs, size \in Sizes :
          refresh_rate = 0 /\ ActivateLoaded(files, size, TRUE)

\* g_application_run returns without having emitted "activate" (the
\* application is already running elsewhere, or the arguments left on the
\* command line are refused): no window, no layers, no timer
RunWithoutActivate(status) ==
    /\ pc = "configured"
    /\ pc' = "after_run"
    /\ exitCode' = status
    /\ UNCHANGED << fatal, run, cfgFile, startFile, key_file, cliGiven, cfgVars,
                    resized_width, resized_height, g_svg_handles, g_window,
                    winSize, timer, pending, paintVars, nSaveCalls, nWrites, saved >>

\* ------------------------------------------------------- the event loop
\* a tick that flips the redraw request instead of setting it
tick_Toggle ==
    /\ pc = "running"
    /\ timer /= None
    /\ pending' = ~pending
    /\ UNCHANGED << pc, exitCode, fatal, run, cfgFile, startFile, key_file, cliGiven,
                    cfgVars, resized_width, resized_height, g_svg_handles,
                    g_window, winSize, timer, paintVars, nSaveCalls, nWrites, saved >>

\* tick: gtk_widget_queue_draw(g_drawing_area); return TRUE
tick ==
    /\ pc = "running"
    /\ timer /= None
    /\ pending' = TRUE
    /\ UNCHANGED << pc, exitCode, fatal, run, cfgFile, startFile, key_file, cliGiven,
                    cfgVars, resized_width, resized_height, g_svg_handles,
                    g_window, winSize, timer, paintVars, nSaveCalls, nWrites, saved >>

\* the user resizes the window: GTK keeps the new size and queues a redraw
Resize(size) ==
    /\ pc = "running"
    /\ winSize /= size
    /\ winSize' = size
    /\ pending' = TRUE
    /\ UNCHANGED << pc, exitCode, fatal, run, cfgFile, startFile, key_file, cliGiven,
                    cfgVars, resized_width, resized_height, g_svg_handles,
                    g_window, timer, paintVars, nSaveCalls, nWrites, saved >>

\* on_quit_action: g_application_quit; g_application_run returns 0
on_quit_action ==
    /\ pc = "running"
    /\ pc' = "after_run"
    /\ exitCode' = 0
    /\ UNCHANGED << fatal, run, cfgFile, startFile, key_file, cliGiven, cfgVars,
                    resized_width, resized_height, g_svg_handles, g_window,
                    winSize, timer, pending, paintVars, nSaveCalls, nWrites, saved >>

\* ------------------------------------------------------------ the paint
\* one step of a paint, as the frame records it
Op(name) ==
    [op |-> name, layer |-> "-", target |-> "-", ok |-> TRUE, angle |-> "-",
     shadow |-> FALSE, deg |-> 0]

\* rsvg_handle_render_document(handle, cr, &viewport, &render_error) of a
\* layer; it fails for the layers of `failed`
Render(layer, target, failed, angle, shadow, deg) ==
    [op |-> "render", layer |-> layer, target |-> target,
     ok |-> (layer \notin failed), angle |-> angle, shadow |-> shadow,
     deg |-> deg]

\* draw_static_layers: the loop over static_layers_info, if (handle) render
draw_static_layers(width, height, failed) ==
    LET present == SelectSeq(static_layers_info, LAMBDA l : l \in g_svg_handles)
    IN  << Op("draw_static_layers") >> \o
        [i \in 1..Len(present) |-> Render(present[i], "bg_cache", failed, "-", FALSE, 0)]

\* what a surface holds after the operations ops drew into it: the layers
\* rendered with success, in order
Rendered(ops, target) ==
    LET done == SelectSeq(ops, LAMBDA o : o.op = "render" /\ o.target = target /\ o.ok)
    IN  [i \in 1..Len(done) |-> done[i].layer]

\* the test of ensure_bg_cache with height compared to bg_cache_w
CacheValid_HeightTypo(width, height) ==
    /\ bg_cache /= None
    /\ width = bg_cache_w
    /\ height = bg_cache_w

\* the test of ensure_bg_cache without its comparison of the heights
CacheValid_WidthOnly(width, height) ==
    /\ bg_cache /= None
    /\ width = bg_cache_w

\* if (bg_cache && width == bg_cache_w && height == bg_cache_h) return;
CacheValid(width, height) ==
    /\ bg_cache /= None
    /\ width = bg_cache_w
    /\ height = bg_cache_h

\* cairo_surface_destroy(surface): the surface is no longer live
cairo_surface_destroy(surfaces, cache) ==
    IF cache /= None THEN surfaces \ { cache[1].id } ELSE surfaces

\* ensure_bg_cache without its if (bg_cache) cairo_surface_destroy(bg_cache)
ensure_bg_cache_NoDestroy(width, height, failed) ==
    IF CacheValid(width, height)
    THEN [cache |-> bg_cache, w |-> bg_cache_w, h |-> bg_cache_h, live |-> live,
          ops |-> << Op("ensure_bg_cache") >>]
    ELSE [cache |-> Some([id |-> nStatic + 1, w |-> width, h |-> height,
                          geometry |-> <<clock_width, clock_height>>,
                          layers |-> Rendered(draw_static_layers(width, height, failed),
                                              "bg_cache")]),
          w |-> width, h |-> height,
          live |-> live \cup { nStatic + 1 },
          ops |-> << Op("ensure_bg_cache") >>
                  \o << Op("cairo_surface_create_similar") >>
                  \o draw_static_layers(width, height, failed)]

\* ensure_bg_cache: the cache, its stored size, the live surfaces and the
\* operations made; the surface cairo_surface_create_similar gives is
\* numbered by the compositions of the run
ensure_bg_cache(width, height, failed) ==
    IF CacheValid(width, height)
    THEN [cache |-> bg_cache, w |-> bg_cache_w, h |-> bg_cache_h, live |-> live,
          ops |-> << Op("ensure_bg_cache") >>]
    ELSE [cache |-> Some([id |-> nStatic + 1, w |-> width, h |-> height,
                          geometry |-> <<clock_width, clock_height>>,
                          layers |-> Rendered(draw_static_layers(width, height, failed),
                                              "bg_cache")]),
          w |-> width, h |-> height,
          live |-> cairo_surface_destroy(live, bg_cache) \cup { nStatic + 1 },
          ops |-> << Op("ensure_bg_cache") >>
                  \o (IF bg_cache /= None THEN << Op("cairo_surface_destroy") >> ELSE << >>)
                  \o << Op("cairo_surface_create_similar") >>
                  \o draw_static_layers(width, height, failed)]

\* angles are counted in units of 1/240 degree, the hour hand's turn in
\* half a second
PerDegree == 240

\* second = tm.tm_sec + ts.tv_nsec / 1e9, counted in half seconds
HalfSeconds(t) ==
    2 * t.tm_sec + t.tv_nsec \div 500000000

\* angle_hour_deg computed from tm_hour without % 12
angle_hour_deg_NoMod(t) ==
    t.tm_hour * 30 * PerDegree + (t.tm_min * PerDegree) \div 2
        + (HalfSeconds(t) * PerDegree) \div 240

\* angle_hour_deg = (hour % 12) * 30.0 + (minute * 0.5) + (second * (0.5 / 60.0))
angle_hour_deg(t) ==
    (t.tm_hour % 12) * 30 * PerDegree + (t.tm_min * PerDegree) \div 2
        + (HalfSeconds(t) * PerDegree) \div 240

\* angle_minute_deg computed from the minute alone
angle_minute_deg_NoSeconds(t) ==
    t.tm_min * 6 * PerDegree

\* angle_minute_deg = minute * 6.0 + (second * 0.1)
angle_minute_deg(t) ==
    t.tm_min * 6 * PerDegree + (HalfSeconds(t) * PerDegree) \div 20

\* angle_second_deg = second * 6.0
angle_second_deg(t) ==
    (HalfSeconds(t) * 6 * PerDegree) \div 2

\* the value of angle_hour_rad, angle_min_rad, angle_sec_rad at local time
\* t: the angle in degrees times G_PI / 180.0, kept in units of 1/240 degree
AngleDeg(name, t) ==
    CASE name = "angle_hour_rad" -> angle_hour_deg(t)
      [] name = "angle_min_rad" -> angle_minute_deg(t)
      [] name = "angle_sec_rad" -> angle_second_deg(t)

\* the switch of draw_clock_hands: the angle a layer is rotated by
HandAngle(layer) ==
    CASE layer \in {CLOCK_HOUR_HAND_SHADOW, CLOCK_HOUR_HAND} -> "angle_hour_rad"
      [] layer \in {CLOCK_MINUTE_HAND_SHADOW, CLOCK_MINUTE_HAND} -> "angle_min_rad"
      [] layer \in {CLOCK_SECOND_HAND_SHADOW, CLOCK_SECOND_HAND} -> "angle_sec_rad"

\* the switch of draw_clock_hands: is_shadow
is_shadow(layer) ==
    layer \in {CLOCK_HOUR_HAND_SHADOW, CLOCK_MINUTE_HAND_SHADOW,
               CLOCK_SECOND_HAND_SHADOW}

\* draw_clock_hands: the loop over hand_layers_info, if (handle) rotate and render
draw_clock_hands(width, height, failed) ==
    LET present == SelectSeq(hand_layers_info, LAMBDA l : l \in g_svg_handles)
    IN  << Op("draw_clock_hands") >> \o
        [i \in 1..Len(present) |->
            Render(present[i], "cr", failed, HandAngle(present[i]),
                   is_shadow(present[i]), AngleDeg(HandAngle(present[i]), now))]

\* on_draw with the hands drawn before the cached background is painted
on_draw_ops_HandsFirst(width, height, failed) ==
    ensure_bg_cache(width, height, failed).ops
        \o draw_clock_hands(width, height, failed)
        \o << Op("paint_bg_cache") >>

\* on_draw: ensure_bg_cache, paint the cached background at (0, 0), draw the hands
on_draw_ops(width, height, failed) ==
    ensure_bg_cache(width, height, failed).ops
        \o << Op("paint_bg_cache") >>
        \o draw_clock_hands(width, height, failed)

\* the number of operations named name in ops
Count(ops, name) ==
    Len(SelectSeq(ops, LAMBDA o : o.op = name))

\* the sizes GTK gives the drawing area
Widths == {400, 600}
Heights == {400, 600}

\* the layers whose rasterization fails in one paint: none, or one of a
\* needed static layer, an optional static layer, a hand and a hand's shadow
FailedSets ==
    { {}, {CLOCK_FACE}, {CLOCK_MARKS}, {CLOCK_HOUR_HAND}, {CLOCK_HOUR_HAND_SHADOW} }

\* the drawing area is drawn: on_draw(area, cr, width, height, NULL)
on_draw(width, height, failed) ==
    /\ pc = "running"
    /\ pending
    /\ nPaints < MaxPaints
    /\ pending' = FALSE
    /\ bg_cache' = ensure_bg_cache(width, height, failed).cache
    /\ live' = ensure_bg_cache(width, height, failed).live
    /\ bg_cache_w' = ensure_bg_cache(width, height, failed).w
    /\ bg_cache_h' = ensure_bg_cache(width, height, failed).h
    /\ frame' = [w |-> width, h |-> height, failed |-> failed, time |-> now,
                 prevTime |-> frame.time,
                 ops |-> on_draw_ops(width, height, failed),
                 painted |-> ensure_bg_cache(width, height, failed).cache]
    /\ nPaints' = nPaints + 1
    /\ nStatic' = nStatic + Count(on_draw_ops(width, height, failed), "draw_static_layers")
    /\ nSizeChanges' = nSizeChanges +
          (IF nPaints = 0 \/ <<width, height>> /= <<frame.w, frame.h>> THEN 1 ELSE 0)
    /\ UNCHANGED << pc, exitCode, fatal, run, cfgFile, startFile, key_file, cliGiven,
                    cfgVars, resized_width, resized_height, g_svg_handles,
                    g_window, winSize, now, timer, nSaveCalls, nWrites, saved >>

\* ------------------------------------------------------------- shutdown
\* save_key_file setting width and height from clock_width and clock_height
SavedKeys_ClockSize(kf, w, h) ==
    [kf EXCEPT !.width = Some(clock_width), !.height = Some(clock_height),
               !.theme = theme, !.hz = Some(refresh_rate)]

\* save_key_file: the four keys are set from resized_width, resized_height,
\* theme and refresh_rate
SavedKeys(kf, w, h) ==
    [kf EXCEPT !.width = Some(w), !.height = Some(h), !.theme = theme,
               !.hz = Some(refresh_rate)]

\* main after g_application_run returned: the size is read from the window
\* (or from clock_width, clock_height when there is none), save_key_file
\* writes the file unless g_key_file_save_to_file fails (written = FALSE),
\* the cached surface and the handles are released, main returns status
MainShutdown(written) ==
    /\ pc = "after_run"
    /\ resized_width' = (IF g_window THEN winSize[1] ELSE clock_width)
    /\ resized_height' = (IF g_window THEN winSize[2] ELSE clock_height)
    /\ key_file' = SavedKeys(key_file, resized_width', resized_height')
    /\ nSaveCalls' = nSaveCalls + 1
    /\ IF written
       THEN /\ cfgFile' = [exists |-> TRUE, keys |-> key_file']
            /\ nWrites' = nWrites + 1
            /\ saved' = Some(key_file')
       ELSE UNCHANGED << cfgFile, nWrites, saved >>
    /\ bg_cache' = None
    /\ live' = cairo_surface_destroy(live, bg_cache)
    /\ g_svg_handles' = {}
    /\ pc' = "exited"
    /\ UNCHANGED << exitCode, fatal, run, startFile, cliGiven, cfgVars, g_window,
                    winSize, now, timer, pending, bg_cache_w, bg_cache_h, frame,
                    nPaints, nStatic, nSizeChanges >>

\* ------------------------------------------------------ specifications
\* the config file of Spec: none (a first run)
InitFiles ==
    { NoFile }

\* the command lines of Spec: no option, -n, or -z 0
CommandLines ==
    { NoOptions, [NoOptions EXCEPT !.noseconds = TRUE],
      [NoOptions EXCEPT !.hz = Some(0)] }

\* the sizes the user gives the window
WindowSizes ==
    { <<600, 600>> }

\* the local time of Spec and SpecCfg: the paints of one run are made within
\* one half second
ClockTimes ==
    { Time(10, 8, 42, 0) }

Init ==
    /\ StaticsInit
    /\ now \in ClockTimes
    /\ run = 1
    /\ saved = None
    /\ cfgFile \in InitFiles
    /\ startFile = cfgFile

Next ==
    \/ process_config(CommandLines)
    \/ on_app_activate_cb(ThemeDirs, IntrinsicSizes)
    \/ \E status \in {0, 1} : RunWithoutActivate(status)
    \/ tick
    \/ \E size \in WindowSizes : Resize(size)
    \/ \E width \in Widths, height \in Heights, failed \in FailedSets :
          on_draw(width, height, failed)
    \/ on_quit_action
    \/ \E written \in BOOLEAN : MainShutdown(written)

Spec ==
    Init /\ [][Next]_vars

\* a new process is started: the file-scope variables have their static
\* initializers again, the config file is as the run before left it
Restart ==
    /\ pc \in {"exited", "crashed"}
    /\ run < MaxRuns
    /\ run' = run + 1
    /\ startFile' = cfgFile
    /\ pc' = "main"
    /\ exitCode' = 0
    /\ fatal' = "none"
    /\ key_file' = EmptyKeyFile
    /\ cliGiven' = NoOptions
    /\ clock_width' = 400
    /\ clock_height' = 400
    /\ theme' = None
    /\ refresh_rate' = 5
    /\ userthemes' = FALSE
    /\ dont_show_seconds' = FALSE
    /\ resized_width' = 0
    /\ resized_height' = 0
    /\ g_svg_handles' = {}
    /\ g_window' = FALSE
    /\ winSize' = <<0, 0>>
    /\ timer' = None
    /\ pending' = FALSE
    /\ bg_cache' = None
    /\ live' = {}
    /\ bg_cache_w' = 0
    /\ bg_cache_h' = 0
    /\ frame' = NoFrame
    /\ nPaints' = 0
    /\ nStatic' = 0
    /\ nSizeChanges' = 0
    /\ nSaveCalls' = 0
    /\ nWrites' = 0
    /\ UNCHANGED << cfgFile, saved, now >>

\* the config files of SpecCfg: none, or one with each key absent or present
InitFilesCfg ==
    { NoFile } \cup
    { [exists |-> TRUE, keys |-> [width |-> w, height |-> h, theme |-> t, hz |-> z]] :
        w \in {None, Some(0), Some(500)}, h \in {None, Some(500)},
        t \in {None, Some("foo")}, z \in {None, Some(0), Some(20)} }

\* the command lines of SpecCfg: each of -w, -h, -t, -z absent or given
CommandLinesCfg ==
    { [width |-> w, height |-> h, theme |-> t, hz |-> z, userthemes |-> FALSE,
       noseconds |-> FALSE] :
        w \in {None, Some(0), Some(600)}, h \in {None, Some(300)},
        t \in {None, Some("bar")}, z \in {None, Some(0), Some(5), Some(-5)} }

\* the theme directories of SpecCfg: complete, or without the face
ThemeDirsCfg ==
    { LayerElement, LayerElement \ {CLOCK_FACE} }

\* the drop shadow of SpecCfg has a size
IntrinsicSizesCfg ==
    { <<3995, 3995>> }

\* the sizes the user gives the window in SpecCfg
WindowSizesCfg ==
    { <<600, 600>>, <<640, 480>> }

InitCfg ==
    /\ StaticsInit
    /\ now \in ClockTimes
    /\ run = 1
    /\ saved = None
    /\ cfgFile \in InitFilesCfg
    /\ startFile = cfgFile

\* the runs of the program as far as the settings go: the paints neither
\* read nor write a setting, the config file or the window size
NextCfg ==
    \/ process_config(CommandLinesCfg)
    \/ on_app_activate_cb(ThemeDirsCfg, IntrinsicSizesCfg)
    \/ \E status \in {0, 1} : RunWithoutActivate(status)
    \/ tick
    \/ \E size \in WindowSizesCfg : Resize(size)
    \/ on_quit_action
    \/ \E written \in BOOLEAN : MainShutdown(written)
    \/ Restart

SpecCfg ==
    InitCfg /\ [][NextCfg]_vars

\* the command lines of SpecLive: no option, or -z 0
CommandLinesLive ==
    { NoOptions, [NoOptions EXCEPT !.hz = Some(0)] }

\* GTK draws the drawing area when a redraw of it is queued; in SpecLive the
\* area is 400 or 600 wide and every layer rasterizes
Paint ==
    \E width \in Widths : on_draw(width, 400, {})

\* the runs of the program as far as the redraw requests go
NextLive ==
    \/ process_config(CommandLinesLive)
    \/ on_app_activate_cb(ThemeDirsCfg, IntrinsicSizesCfg)
    \/ \E status \in {0, 1} : RunWithoutActivate(status)
    \/ tick
    \/ \E size \in WindowSizes : Resize(size)
    \/ Paint
    \/ on_quit_action
    \/ \E written \in BOOLEAN : MainShutdown(written)

\* the runs in which GTK does not put off a queued redraw for ever: the
\* redraw is made in the frame clock's paint phase, which GLib's main loop
\* dispatches
SpecLive ==
    Init /\ [][NextLive]_vars /\ WF_vars(Paint)

\* the local time half a second after t, on a day without a change of the
\* UTC offset
HalfSecondLater(t) ==
    IF t.tv_nsec < 500000000 THEN [t EXCEPT !.tv_nsec = 500000000]
    ELSE IF t.tm_sec < 59 THEN Time(t.tm_hour, t.tm_min, t.tm_sec + 1, 0)
    ELSE IF t.tm_min < 59 THEN Time(t.tm_hour, t.tm_min + 1, 0, 0)
    ELSE Time((t.tm_hour + 1) % 24, 0, 0, 0)

\* half a second passes; the timer fires several times in half a second and
\* the paints keep up with it, so the time a paint reads is the time of the
\* paint before it or half a second later
ClockAdvance ==
    /\ pc = "running"
    /\ nPaints > 0
    /\ frame.time = now
    /\ now' = HalfSecondLater(now)
    /\ UNCHANGED << pc, exitCode, fatal, run, cfgFile, startFile, key_file, cliGiven,
                    cfgVars, resized_width, resized_height, g_svg_handles,
                    g_window, winSize, timer, pending, bg_cache, live, bg_cache_w,
                    bg_cache_h, frame, nPaints, nStatic, nSizeChanges, nSaveCalls,
                    nWrites, saved >>

\* the local times a run of SpecTime starts at: every hour, the minutes and
\* the seconds next to 0, 30 and 60, on the second or half a second after it
StartTimes ==
    { Time(h, m, sec, nsec) :
        h \in 0..23, m \in {0, 1, 29, 30, 58, 59}, sec \in {0, 1, 29, 30, 58, 59},
        nsec \in {0, 500000000} }

\* the command lines of SpecTime: no option, or -n
CommandLinesTime ==
    { NoOptions, [NoOptions EXCEPT !.noseconds = TRUE] }

InitTime ==
    /\ StaticsInit
    /\ run = 1
    /\ saved = None
    /\ cfgFile = NoFile
    /\ startFile = cfgFile
    /\ now \in StartTimes

\* the runs of the program as far as the hands go: a complete theme loads,
\* the window keeps its 400x400 and every layer rasterizes while the local
\* time advances
NextTime ==
    \/ \E cli \in CommandLinesTime : ProcessConfigParse(cli, TRUE)
    \/ \E size \in IntrinsicSizesCfg : ActivateLoaded(LayerElement, size, FALSE)
    \/ tick
    \/ on_draw(400, 400, {})
    \/ ClockAdvance

SpecTime ==
    InitTime /\ [][NextTime]_vars

\* ------------------------------------------------------------ the claims
\* a paint step: on_draw is the only action that counts a paint
PaintStep ==
    nPaints' = nPaints + 1

\* the positions of the operations named name in ops
Positions(ops, name) ==
    { i \in 1..Len(ops) : ops[i].op = name }

\* the render operations of ops into target, in order
RendersInto(ops, target) ==
    SelectSeq(ops, LAMBDA o : o.op = "render" /\ o.target = target)

\* the layers of a sequence of render operations, in order
LayersOf(ops) ==
    [i \in 1..Len(ops) |-> ops[i].layer]

\* the elements of a sequence
Range(seq) ==
    { seq[i] : i \in 1..Len(seq) }

\* C1: a paint of the same size as the paint before it calls draw_static_layers
\* zero times and leaves the cached surface and its stored size as they were
C1_CacheHit ==
    [][ (PaintStep /\ nPaints > 0 /\ frame'.w = frame.w /\ frame'.h = frame.h)
        => /\ nStatic' = nStatic
           /\ Count(frame'.ops, "draw_static_layers") = 0
           /\ bg_cache' = bg_cache
           /\ bg_cache_w' = bg_cache_w
           /\ bg_cache_h' = bg_cache_h ]_vars

\* two paints of one size that is not square have been made, the second a cache hit
C1_Witness ==
    /\ nPaints = 2
    /\ nSizeChanges = 1
    /\ frame.w /= frame.h
    /\ Count(frame.ops, "draw_static_layers") = 0

\* C2: a paint whose size differs from the cached size in width or in height
\* composes the background exactly once, before the cached surface is
\* painted; the draw_static_layers calls of a run are as many as its paints
\* whose size differs from the size of the paint before, the first included
C2_RebuildOncePerSizeChange ==
    /\ [](nStatic = nSizeChanges)
    /\ [][ (PaintStep /\ (bg_cache = None \/ frame'.w /= bg_cache_w \/ frame'.h /= bg_cache_h))
           => /\ nStatic' = nStatic + 1
              /\ Cardinality(Positions(frame'.ops, "draw_static_layers")) = 1
              /\ \A i \in Positions(frame'.ops, "draw_static_layers"),
                    j \in Positions(frame'.ops, "paint_bg_cache") : i < j ]_vars

\* the third paint changed the height alone and was the second recomposition
C2_Witness ==
    /\ nPaints = 3
    /\ nStatic = 2
    /\ bg_cache /= None
    /\ Count(frame.ops, "draw_static_layers") = 1
    /\ frame.w = 400
    /\ frame.h = 600

\* C3: the surface a paint paints as the background exists, was created and
\* composed for the size of that paint, and the stored size is that size
C3_CacheValidWhenPainted ==
    nPaints > 0 =>
        /\ frame.painted /= None
        /\ frame.painted[1].w = frame.w
        /\ frame.painted[1].h = frame.h
        /\ bg_cache_w = frame.w
        /\ bg_cache_h = frame.h
        /\ pc = "running" => bg_cache = frame.painted

\* a paint after a change of size painted a surface of the new size
C3_Witness ==
    /\ nPaints >= 2
    /\ nStatic >= 2
    /\ frame.painted /= None
    /\ frame.painted[1].w = frame.w
    /\ frame.painted[1].h = frame.h

\* C4: every paint does ensure_bg_cache, then paints the cached surface, then
\* draw_clock_hands, each once; every layer drawn into the cache precedes the
\* painting of the cache, every hand layer follows it
C4_PerFrameOrder ==
    nPaints > 0 =>
        /\ frame.ops[1].op = "ensure_bg_cache"
        /\ Cardinality(Positions(frame.ops, "ensure_bg_cache")) = 1
        /\ Cardinality(Positions(frame.ops, "paint_bg_cache")) = 1
        /\ Cardinality(Positions(frame.ops, "draw_clock_hands")) = 1
        /\ \A p \in Positions(frame.ops, "paint_bg_cache") :
              /\ \A h \in Positions(frame.ops, "draw_clock_hands") : p < h
              /\ \A i \in 1..Len(frame.ops) :
                    frame.ops[i].op = "render" =>
                        IF frame.ops[i].target = "cr" THEN p < i ELSE i < p

\* a paint has drawn a hand
C4_Witness ==
    /\ nPaints > 0
    /\ \E i \in 1..Len(frame.ops) :
          frame.ops[i].op = "render" /\ frame.ops[i].layer = CLOCK_HOUR_HAND

\* the order of the static pass as the specification gives it
StaticPassOrder ==
    << CLOCK_DROP_SHADOW, CLOCK_FACE, CLOCK_MARKS, CLOCK_FACE_SHADOW,
       CLOCK_GLASS, CLOCK_FRAME >>

\* C5: a composition renders exactly the loaded static layers, in the order
\* drop shadow, face, marks, face shadow, glass, frame; a layer that is not
\* loaded is left out and the others keep their order; no hand and no hand
\* shadow is ever in the cached background
C5_StaticPassOrder ==
    pc = "running" =>
        /\ Count(frame.ops, "draw_static_layers") > 0 =>
              LayersOf(RendersInto(frame.ops, "bg_cache"))
                  = SelectSeq(StaticPassOrder, LAMBDA l : l \in g_svg_handles)
        /\ bg_cache /= None =>
              Range(bg_cache[1].layers) \subseteq Range(StaticPassOrder)
        /\ \A i \in 1..Len(frame.ops) :
              (frame.ops[i].op = "render" /\ frame.ops[i].target = "bg_cache")
                  => frame.ops[i].layer \in Range(StaticPassOrder)

\* a composition was made with the marks not loaded and the glass loaded
C5_Witness ==
    /\ pc = "running"
    /\ Count(frame.ops, "draw_static_layers") = 1
    /\ CLOCK_MARKS \notin g_svg_handles
    /\ CLOCK_GLASS \in g_svg_handles
    /\ Len(RendersInto(frame.ops, "bg_cache")) = 5

C7_FatalPersistsNothing ==
    /\ fatal /= "none" =>
          /\ pc = "exited"
          /\ exitCode /= 0
          /\ nSaveCalls = 0
          /\ nWrites = 0
          /\ nPaints = 0
          /\ bg_cache = None
    /\ pc = "running" => NeededLayers \subseteq g_svg_handles
    /\ nPaints > 0 => fatal = "none"

\* a run was ended by a needed layer that did not load
C7_Witness ==
    /\ fatal = "asset"
    /\ pc = "exited"
    /\ g_window

\* a loaded layer is visible in the frame: a static layer is in the surface
\* painted as the background, a hand layer was rendered with success
Visible(layer) ==
    IF layer \in Range(static_layers_info)
    THEN frame.painted /= None /\ layer \in Range(frame.painted[1].layers)
    ELSE \E i \in 1..Len(frame.ops) :
            /\ frame.ops[i].op = "render"
            /\ frame.ops[i].layer = layer
            /\ frame.ops[i].ok

\* C8: a layer that fails to rasterize is left out of that frame only: every
\* loaded layer that rasterizes in a frame is visible in that frame, whatever
\* failed in the frames before
C8_RenderFailurePerFrameOnly ==
    (pc = "running" /\ nPaints > 0) =>
        \A layer \in g_svg_handles \ frame.failed : Visible(layer)

\* the run ended by a quit of the application or by g_application_run
\* returning on its own, and main returned
QuitDone ==
    pc = "exited" /\ fatal = "none"

\* the keys save_key_file has to leave in the file
KeysAtQuit ==
    [width |-> Some(IF g_window THEN winSize[1] ELSE clock_width),
     height |-> Some(IF g_window THEN winSize[2] ELSE clock_height),
     theme |-> theme,
     hz |-> Some(refresh_rate)]

\* C9 as claimed: every quit of a run that had its window leaves the config
\* file written exactly once, with the last size of the window, the theme and
\* the refresh rate of the run
C9_WrittenOnEveryQuit ==
    (QuitDone /\ g_window) =>
        /\ nWrites = 1
        /\ cfgFile.exists
        /\ cfgFile.keys = KeysAtQuit

\* C9 as amended: nothing is saved before the event loop has ended; at a
\* quit save_key_file is called exactly once and, unless writing the file
\* fails (then the file stays as the run found it), the file holds the last
\* size of the window (clock_width, clock_height when no window was made),
\* the theme and the refresh rate of the run; from no file and no option,
\* a window resized to 600x600 leaves 600, 600, "default", 10
C9_ShutdownPersistence ==
    /\ pc /= "exited" => (nSaveCalls = 0 /\ nWrites = 0 /\ cfgFile = startFile)
    /\ QuitDone =>
          /\ nSaveCalls = 1
          /\ nWrites <= 1
          /\ nWrites = 0 => cfgFile = startFile
          /\ nWrites = 1 => (cfgFile.exists /\ cfgFile.keys = KeysAtQuit)
          /\ g_window => (resized_width = winSize[1] /\ resized_height = winSize[2])
    /\ (QuitDone /\ nWrites = 1 /\ startFile = NoFile /\ cliGiven = NoOptions
            /\ g_window /\ winSize = <<600, 600>>)
          => cfgFile.keys = [width |-> Some(600), height |-> Some(600),
                             theme |-> Some("default"), hz |-> Some(10)]

\* the first run found no file, had no option, its window was resized to
\* 600x600 and the quit wrote the file
C9_Witness ==
    /\ QuitDone
    /\ run = 1
    /\ startFile = NoFile
    /\ cliGiven = NoOptions
    /\ g_window
    /\ winSize = <<600, 600>>
    /\ nWrites = 1
    /\ cfgFile.keys.width = Some(600)

\* a run that loads, with no option, the file a run before it saved
Reloaded ==
    /\ pc = "configured"
    /\ saved /= None
    /\ cfgFile.keys = saved[1]
    /\ cliGiven.width = None
    /\ cliGiven.height = None
    /\ cliGiven.theme = None
    /\ cliGiven.hz = None

\* C10 as claimed: whatever four values (the refresh rate a positive integer)
\* save_key_file wrote, process_config with no option loads the same four
C10_RoundTrip ==
    (Reloaded /\ saved[1].hz[1] > 0) =>
        /\ clock_width = saved[1].width[1]
        /\ clock_height = saved[1].height[1]
        /\ theme = saved[1].theme
        /\ refresh_rate = saved[1].hz[1]

\* C10 as amended: the theme is loaded as saved; a width, a height and a
\* refresh rate are loaded as saved when they are not 0, and a saved 0 is
\* loaded as the default 400, 400 or 10
C10_RoundTripNonZero ==
    Reloaded =>
        /\ theme = saved[1].theme
        /\ clock_width = (IF saved[1].width[1] = 0 THEN 400 ELSE saved[1].width[1])
        /\ clock_height = (IF saved[1].height[1] = 0 THEN 400 ELSE saved[1].height[1])
        /\ refresh_rate = (IF saved[1].hz[1] = 0 THEN 10 ELSE saved[1].hz[1])

\* 500, 500, "foo", 20 was saved and is loaded again
C10_Witness ==
    /\ Reloaded
    /\ saved[1] = [width |-> Some(500), height |-> Some(500),
                   theme |-> Some("foo"), hz |-> Some(20)]
    /\ clock_width = 500
    /\ clock_height = 500
    /\ theme = Some("foo")
    /\ refresh_rate = 20

\* C11 as claimed: whenever the periodic timer is armed the refresh rate is a
\* positive integer and the interval given to g_timeout_add is
\* 1000 / refresh_rate, a positive number of milliseconds; the division is
\* never made with a zero divisor
C11_RefreshRatePositive ==
    /\ pc /= "crashed"
    /\ timer /= None =>
          /\ refresh_rate > 0
          /\ timer[1] = CDiv(1000, refresh_rate)
          /\ timer[1] > 0

\* the value a setting resolves to as claimed: the option when it is given,
\* else the key of the file when it is present, else the default
Resolved(opt, key, dflt) ==
    IF opt /= None THEN opt[1]
    ELSE IF key /= None THEN key[1] ELSE dflt

\* the value an integer setting resolves to: a key holding 0 counts as absent
ResolvedNonZero(opt, key, dflt) ==
    IF opt /= None THEN opt[1]
    ELSE IF key /= None /\ key[1] /= 0 THEN key[1] ELSE dflt

\* C12 as claimed: after process_config each of width, height, theme and hz
\* is the option when given, else the key of the config file when present,
\* else 400, 400, "default", 10
C12_Precedence ==
    pc = "configured" =>
        /\ clock_width = Resolved(cliGiven.width, cfgFile.keys.width, 400)
        /\ clock_height = Resolved(cliGiven.height, cfgFile.keys.height, 400)
        /\ theme = Some(Resolved(cliGiven.theme, cfgFile.keys.theme, "default"))
        /\ refresh_rate = Resolved(cliGiven.hz, cfgFile.keys.hz, 10)

\* C12 as amended: after process_config each of width, height, theme and hz
\* is the option when given, else the key of the config file when present
\* (and, for the three integers, not 0), else 400, 400, "default", 10; each
\* setting is a function of its own option and its own key alone
C12_PrecedenceNonZero ==
    pc = "configured" =>
        /\ clock_width = ResolvedNonZero(cliGiven.width, cfgFile.keys.width, 400)
        /\ clock_height = ResolvedNonZero(cliGiven.height, cfgFile.keys.height, 400)
        /\ theme = Some(Resolved(cliGiven.theme, cfgFile.keys.theme, "default"))
        /\ refresh_rate = ResolvedNonZero(cliGiven.hz, cfgFile.keys.hz, 10)

\* -w 600 over a file with width 500, the height 500 of the file with no -h,
\* the default theme with neither -t nor a theme key, -z 5 over hz 20
C12_Witness ==
    /\ pc = "configured"
    /\ cliGiven.width = Some(600)
    /\ cfgFile.keys.width = Some(500)
    /\ clock_width = 600
    /\ cliGiven.height = None
    /\ cfgFile.keys.height = Some(500)
    /\ clock_height = 500
    /\ cliGiven.theme = None
    /\ cfgFile.keys.theme = None
    /\ theme = Some("default")
    /\ cliGiven.hz = Some(5)
    /\ cfgFile.keys.hz = Some(20)
    /\ refresh_rate = 5

\* the hand a layer of the dynamic pass belongs to
HandOf(layer) ==
    CASE layer \in {CLOCK_HOUR_HAND, CLOCK_HOUR_HAND_SHADOW} -> "hour"
      [] layer \in {CLOCK_MINUTE_HAND, CLOCK_MINUTE_HAND_SHADOW} -> "minute"
      [] layer \in {CLOCK_SECOND_HAND, CLOCK_SECOND_HAND_SHADOW} -> "second"

\* the angles as claimed at local time t with the second counted in half
\* seconds, in units of 1/240 degree: (hour mod 12)*30 + minute*0.5 +
\* second*(0.5/60), minute*6 + second*0.1, second*6
ClaimedAngle(hand, t) ==
    LET half == 2 * t.tm_sec + (IF t.tv_nsec >= 500000000 THEN 1 ELSE 0)
    IN  CASE hand = "hour" -> (t.tm_hour % 12) * 7200 + t.tm_min * 120 + half
          [] hand = "minute" -> t.tm_min * 1440 + half * 12
          [] hand = "second" -> half * 720

\* the render operations of a frame that draw a hand or a shadow
HandOps(f) ==
    RendersInto(f.ops, "cr")

\* the angles, in units of 1/240 degree, the layers of a hand are rotated by
\* in a frame
DrawnAngles(f, hand) ==
    { HandOps(f)[i].deg : i \in { j \in 1..Len(HandOps(f)) :
                                     HandOf(HandOps(f)[j].layer) = hand } }

\* C13: in every paint each hand and each shadow is rotated by the angle
\* claimed for the local time the paint read: (hour mod 12)*30 + minute*0.5
\* + second*(0.5/60), minute*6 + second*0.1, second*6 degrees; a shadow is
\* rotated by the angle of its hand; at 03:00:00 the angles are 90, 0, 0, at
\* 00:30:00 the hour angle is 15 and the minute angle 180, at 00:00:30 the
\* second angle is 180
C13_AngleFormulas ==
    nPaints > 0 =>
        /\ \A i \in 1..Len(HandOps(frame)) :
              HandOps(frame)[i].deg =
                  ClaimedAngle(HandOf(HandOps(frame)[i].layer), frame.time)
        /\ \A hand \in {"hour", "minute", "second"} :
              Cardinality(DrawnAngles(frame, hand)) <= 1
        /\ frame.time = Time(3, 0, 0, 0) =>
              /\ DrawnAngles(frame, "hour") = {90 * 240}
              /\ DrawnAngles(frame, "minute") = {0}
              /\ DrawnAngles(frame, "second") \subseteq {0}
        /\ frame.time = Time(0, 30, 0, 0) =>
              /\ DrawnAngles(frame, "hour") = {15 * 240}
              /\ DrawnAngles(frame, "minute") = {180 * 240}
        /\ frame.time = Time(0, 0, 30, 0) =>
              DrawnAngles(frame, "second") \subseteq {180 * 240}

\* a paint at 15:00:00 drew the three hands and the three shadows, the hour
\* hand and its shadow at 90 degrees
C13_Witness ==
    /\ nPaints > 0
    /\ frame.time = Time(15, 0, 0, 0)
    /\ Len(HandOps(frame)) = 6
    /\ \E i, j \in 1..6 :
          /\ HandOps(frame)[i].layer = CLOCK_HOUR_HAND
          /\ HandOps(frame)[j].layer = CLOCK_HOUR_HAND_SHADOW
          /\ HandOps(frame)[i].deg = 90 * 240
          /\ HandOps(frame)[j].deg = 90 * 240

\* the angle a hand was drawn at in a frame in which it was drawn
DrawnAngle(f, hand) ==
    CHOOSE a \in DrawnAngles(f, hand) : TRUE

\* the local time passed the boundary of a hand between the times s and t:
\* the minute changed, the hour changed, it became 00:00:00 or 12:00:00
Rollover(hand, s, t) ==
    CASE hand = "second" -> t.tm_min /= s.tm_min
      [] hand = "minute" -> t.tm_hour /= s.tm_hour
      [] hand = "hour" -> (t.tm_hour % 12 = 0 /\ s.tm_hour % 12 = 11)

\* what half a second adds to the angle of a hand, in units of 1/240 degree
HalfSecondTurn(hand) ==
    CASE hand = "hour" -> 1
      [] hand = "minute" -> 12
      [] hand = "second" -> 720

\* C14: from one paint to the next, with the local time the paints read the
\* same or half a second later, the angle of each hand is in [0, 360), and
\* it either decreases by wrapping to 0 at the rollover of the hand's own
\* unit (the minute for the second hand, the hour for the minute hand,
\* 12:00 and 00:00 for the hour hand) or grows by what the time passed adds
\* to it, also when the second or the minute rolls over
C14_AngleMonotonic ==
    [][ (PaintStep /\ nPaints > 0) =>
          \A hand \in {"hour", "minute", "second"} :
             DrawnAngles(frame', hand) /= {} =>
                LET a == DrawnAngle(frame, hand)
                    b == DrawnAngle(frame', hand)
                IN  /\ 0 <= b
                    /\ b < 360 * 240
                    /\ b < a => (b = 0 /\ Rollover(hand, frame.time, frame'.time))
                    /\ b >= a =>
                          /\ ~Rollover(hand, frame.time, frame'.time)
                          /\ b - a = (IF frame'.time = frame.time THEN 0
                                      ELSE HalfSecondTurn(hand)) ]_vars

\* the paint before read 11:59:59.5 and the last paint read 12:00:00: the hour
\* and the minute angle wrapped to 0, and the second hand was drawn
C14_Witness ==
    /\ nPaints >= 2
    /\ frame.prevTime = Time(11, 59, 59, 500000000)
    /\ frame.time = Time(12, 0, 0, 0)
    /\ DrawnAngles(frame, "hour") = {0}
    /\ DrawnAngles(frame, "minute") = {0}
    /\ DrawnAngles(frame, "second") = {0}

\* C15: a redraw is queued or not; a step of the running application that
\* changes nothing but the redraw request queues it (a tick while idle), and
\* a tick while a redraw is queued changes nothing; only a paint takes the
\* request back, a paint is made only when one is queued and leaves none, so
\* the ticks before a paint make one paint; the timer stays armed with its
\* interval as long as the application runs; and with GTK executing queued
\* redraws fairly a queued redraw leads to a paint or to the end of the run
\* (within the MaxPaints paints followed)
C15_FrameDriver ==
    /\ [](pending \in BOOLEAN)
    /\ [](pc = "running" => timer /= None)
    /\ [][ /\ (pc = "running" /\ pc' = "running") => timer' = timer
           /\ (pending /\ ~pending') => (PaintStep \/ pc' = "main")
           /\ PaintStep => (pending /\ ~pending')
           /\ (pc = "running" /\ pending' /= pending /\ ~PaintStep
                 /\ winSize' = winSize /\ pc' = pc) => (~pending /\ pending') ]_vars
    /\ (pc = "running" /\ pending /\ nPaints < MaxPaints)
          ~> (~pending \/ pc /= "running")

\* two paints were made, the second after a tick, and no redraw is queued
C15_Witness ==
    /\ pc = "running"
    /\ timer /= None
    /\ nPaints = 2
    /\ ~pending

\* the static layers that are loaded
StaticPresent ==
    Range(SelectSeq(static_layers_info, LAMBDA l : l \in g_svg_handles))

\* the reference path: the surface a paint of size width x height gets when
\* it composes the static layers from scratch
Recomposed(width, height, failed) ==
    [w |-> width, h |-> height, geometry |-> <<clock_width, clock_height>>,
     layers |-> Rendered(draw_static_layers(width, height, failed), "bg_cache")]

\* what a surface holds: its size, the logical geometry it was composed
\* with and the layers rendered into it
Content(surface) ==
    [w |-> surface.w, h |-> surface.h, geometry |-> surface.geometry,
     layers |-> surface.layers]

\* rasterization is deterministic: the static layers that failed to
\* rasterize when the painted surface was composed are those that fail in
\* the last paint
Deterministic ==
    StaticPresent \ Range(frame.painted[1].layers) = StaticPresent \cap frame.failed

\* C16: with deterministic rasterization the surface a paint paints as the
\* background, taken from the cache or composed in the paint, is the surface
\* the reference path composes from scratch for the size of the paint: the
\* same layers in the same order at the same size and logical geometry; and
\* no step of the running application (tick, resize, paint) changes the set
\* of loaded layers or the logical geometry
C16_CacheTransparent ==
    /\ []((pc = "running" /\ nPaints > 0 /\ Deterministic) =>
             Content(frame.painted[1]) = Recomposed(frame.w, frame.h, frame.failed))
    /\ [][ (pc = "running" /\ pc' = "running") =>
              /\ g_svg_handles' = g_svg_handles
              /\ clock_width' = clock_width
              /\ clock_height' = clock_height ]_vars

\* the third paint took the background from the cache; the marks failed to
\* rasterize when the surface was composed and fail in this paint
C16_Witness ==
    /\ pc = "running"
    /\ nPaints = 3
    /\ Count(frame.ops, "draw_static_layers") = 0
    /\ CLOCK_MARKS \in g_svg_handles
    /\ frame.failed = {CLOCK_MARKS}
    /\ Deterministic
    /\ frame.painted = bg_cache
    /\ CLOCK_MARKS \notin Range(frame.painted[1].layers)
    /\ CLOCK_FACE \in Range(frame.painted[1].layers)

\* the sizes in pixels the drop shadow can have when it has one, rounded up
AvailableGeometries ==
    { <<CeilTenths(size[1]), CeilTenths(size[2])>> :
        size \in IntrinsicSizes \ { <<0, 0>> } }

\* C17 as claimed: once the theme is loaded clock_width x clock_height, the
\* logical geometry every composition and every hand draw scales by, is the
\* size of the drop shadow rounded up when it has a size in pixels and
\* 400x400 when it has none, is not zero in either dimension, and is the
\* geometry the cached surface was composed with
C17_LogicalGeometry ==
    pc = "running" =>
        /\ <<clock_width, clock_height>> \in AvailableGeometries \cup { <<400, 400>> }
        /\ clock_width /= 0
        /\ clock_height /= 0
        /\ bg_cache /= None => bg_cache[1].geometry = <<clock_width, clock_height>>

\* the layers the render operations of a frame draw
RenderedLayers(f) ==
    { f.ops[i].layer : i \in { j \in 1..Len(f.ops) : f.ops[j].op = "render" } }

\* C18: with -n load_clock_svgs, when it is called, makes no load_svg call for
\* the second hand and its shadow, ends the process for the same theme directories as
\* without -n and loads the same other ten layers; while the application
\* runs with -n the two slots are empty, the other slots hold what the
\* theme directory has, and no paint renders the second hand or its shadow
\* while it draws every other loaded hand layer in the order of
\* hand_layers_info; without -n a theme directory that has the needed layers
\* but not the second hand loads, the slots of the missing files empty
C18_HideSeconds ==
    /\ pc = "configured" =>
          /\ \A i \in 1..Len(LoadCalls(TRUE)) :
                LoadCalls(TRUE)[i][1] \notin SecondsLayers
          /\ \A files \in ThemeDirs :
                /\ LoadExits(files, TRUE) = LoadExits(files, FALSE)
                /\ LoadedHandles(files, TRUE) =
                      LoadedHandles(files, FALSE) \ SecondsLayers
                /\ NeededLayers \subseteq files =>
                      (~LoadExits(files, FALSE) /\ LoadedHandles(files, FALSE) = files)
    /\ (pc = "running" /\ dont_show_seconds) =>
          /\ g_svg_handles \cap SecondsLayers = {}
          /\ \E files \in ThemeDirs :
                NeededLayers \subseteq files /\ g_svg_handles = files \ SecondsLayers
          /\ RenderedLayers(frame) \cap SecondsLayers = {}
          /\ nPaints > 0 =>
                LayersOf(HandOps(frame)) =
                    SelectSeq(hand_layers_info,
                              LAMBDA l : l \in g_svg_handles \ SecondsLayers)
    /\ (pc = "running" /\ ~dont_show_seconds) =>
          \E files \in ThemeDirs : NeededLayers \subseteq files /\ g_svg_handles = files

\* with -n and a complete theme directory a paint drew the cached background
\* and the hour and minute hands with their shadows, the ten other layers
\* being loaded
C18_Witness ==
    /\ pc = "running"
    /\ dont_show_seconds
    /\ nPaints > 0
    /\ g_svg_handles = LayerElement \ SecondsLayers
    /\ LayersOf(HandOps(frame)) =
          << CLOCK_HOUR_HAND_SHADOW, CLOCK_MINUTE_HAND_SHADOW, CLOCK_HOUR_HAND,
             CLOCK_MINUTE_HAND >>
    /\ Len(frame.painted[1].layers) = 6

\* every operation named first in ops comes before every one named second
AllBefore(ops, first, second) ==
    \A i \in Positions(ops, first), j \in Positions(ops, second) : i < j

\* the positions in ops of the renderings into the cached surface
CacheRenders(ops) ==
    { i \in 1..Len(ops) : ops[i].op = "render" /\ ops[i].target = "bg_cache" }

\* C19: before the first paint there is no cached surface; at every moment
\* at most one surface is live, the one bg_cache holds; a paint that replaces
\* the surface destroys the old one before it creates the new one, draws the
\* static layers into the new one only and paints it afterwards, and the old
\* one is not live from then on; a paint that keeps the surface draws
\* nothing into it; a surface never changes while it is cached; the surface
\* a paint of the running application painted is live; and when main has
\* returned no surface is live
C19_SurfaceLifecycle ==
    /\ [](nPaints = 0 => (bg_cache = None /\ live = {}))
    /\ [](Cardinality(live) <= 1)
    /\ [](live = (IF bg_cache = None THEN {} ELSE { bg_cache[1].id }))
    /\ []((pc = "running" /\ nPaints > 0) =>
             (frame.painted /= None /\ frame.painted[1].id \in live))
    /\ [](pc \in {"exited", "crashed"} => (bg_cache = None /\ live = {}))
    /\ [](nPaints > 0 =>
             /\ AllBefore(frame.ops, "cairo_surface_destroy",
                          "cairo_surface_create_similar")
             /\ AllBefore(frame.ops, "cairo_surface_create_similar", "paint_bg_cache")
             /\ Count(frame.ops, "cairo_surface_create_similar") <= 1
             /\ Count(frame.ops, "cairo_surface_destroy")
                   <= Count(frame.ops, "cairo_surface_create_similar")
             /\ \A i \in CacheRenders(frame.ops) :
                   /\ \E j \in Positions(frame.ops, "cairo_surface_create_similar") : j < i
                   /\ \A j \in Positions(frame.ops, "paint_bg_cache") : i < j)
    /\ [][ (PaintStep /\ bg_cache /= None) =>
              IF bg_cache' = bg_cache
              THEN /\ live' = live
                   /\ CacheRenders(frame'.ops) = {}
                   /\ Count(frame'.ops, "cairo_surface_create_similar") = 0
              ELSE /\ bg_cache' /= None
                   /\ bg_cache'[1].id /= bg_cache[1].id
                   /\ bg_cache[1].id \notin live'
                   /\ Count(frame'.ops, "cairo_surface_destroy") = 1
                   /\ Count(frame'.ops, "cairo_surface_create_similar") = 1 ]_vars
    /\ [][ (bg_cache /= None /\ bg_cache' /= None /\ bg_cache'[1].id = bg_cache[1].id)
              => bg_cache' = bg_cache ]_vars

\* the third paint replaced the surface of the second: the second surface is
\* no longer live, the third is the one painted, the only one live
C19_Witness ==
    /\ pc = "running"
    /\ nPaints = 3
    /\ Count(frame.ops, "cairo_surface_destroy") = 1
    /\ bg_cache /= None
    /\ bg_cache[1].id = 3
    /\ frame.painted = bg_cache
    /\ live = {3}

====
